---- MODULE Spec2Model ----
(***************************************************************************)
(* BreaksComplianceChecker (Article 7 of Regulation (EC) No 561/2006).     *)
(*                                                                         *)
(* The model follows src/src/BreaksComplianceChecker.ts: the constructor   *)
(* with its validation, check() iterating over the days of a horizon       *)
(* schedule, and checkDailyCompliance() scanning the slots of one day      *)
(* while it mutates the field `state`.                                     *)
(*                                                                         *)
(* Numbers.  Slot durations and the fields of a constructed checker are    *)
(* whole seconds.  The arguments handed to the constructor are arbitrary   *)
(* JavaScript numbers, so `args` holds them in units of 1/Resolution of a  *)
(* second: an argument is an integer number of seconds exactly when it is  *)
(* a multiple of Resolution.                                               *)
(*                                                                         *)
(* Indices.  The code indexes slots from 0, TLA+ sequences from 1: slot i  *)
(* of the code is slotsSequence[i + 1] here; offendingSlotIndex keeps the  *)
(* code's 0-based value.                                                   *)
(***************************************************************************)
EXTENDS Integers, Sequences, FiniteSets, TLC

VARIABLES
    pc,                      \* position of the caller / of the running method
    args,                    \* the constructor's arguments (1/Resolution s)
    error,                   \* message of the Error thrown by the constructor
    maxDrivingDurationSec,   \* private readonly field
    singleBreakDurationSec,  \* private readonly field
    splitBreakDurations,     \* private readonly field, a pair
    state,                   \* private field state: CheckerState
    schedule,                \* argument of the running check() call
    dayIdx,                  \* position of check()'s for-of loop (1-based)
    i,                       \* loop index of checkDailyCompliance (0-based)
    infringements,           \* local variable of check()
    result,                  \* value returned by check()
    pc2,                     \* position of a second check() call
    schedule2,               \* argument of the second check() call
    dayIdx2,                 \* position of the second call's for-of loop
    i2,                      \* loop index of the second call's day scan
    infringements2,          \* local variable of the second call
    result2                  \* value returned by the second call

vars == <<pc, args, error, maxDrivingDurationSec, singleBreakDurationSec,
          splitBreakDurations, state, schedule, dayIdx, i, infringements,
          result, pc2, schedule2, dayIdx2, i2, infringements2, result2>>

\* The locals of the second call; the two calls have this.state in common.
frame2 == <<pc2, schedule2, dayIdx2, i2, infringements2, result2>>

fields == <<maxDrivingDurationSec, singleBreakDurationSec, splitBreakDurations>>

----------------------------------------------------------------------------
(* Bounds of the model.                                                    *)

\* Constructor arguments are multiples of 1/Resolution of a second.
Resolution == 2

\* Longest day (number of slots) of the one-day schedules of Spec.
MaxSlots == 4

\* Number of days, and slots per day, of the horizons of SpecHorizon.
MaxDays == 2

MaxDaySlots == 2

----------------------------------------------------------------------------
(* models.ts                                                               *)

TimeSlotType == {"drive", "wait", "serviceCustomer", "otherWork", "break", "rest"}

\* ArticleNumber's constructor accepts a value in [1, 29].
ArticleNumberValid(value) == ~(value <= 0 \/ value > 29)

ArticleNumber(value) == [value |-> value]

getArticle == ArticleNumber(7)

\* new CheckerState()
CheckerState ==
    [infringements |-> <<>>,
     drivingTime |-> 0,
     takingSplitBreak |-> FALSE,
     infringementReported |-> FALSE]

\* The three message templates of brokenRule; the interpolated number is the
\* second component of the modelled brokenRule.
DidNotTakeABreak == "Driver did not take a break: drive time without a break"

Insufficient1st == "Driver took an insufficient split break: 1st break duration"

Insufficient2nd == "Driver took an insufficient split break: 2nd break duration"

Infringement(day, rule, n, index) ==
    [articleNumber |-> getArticle,
     day |-> day,
     brokenRule |-> <<rule, n>>,
     offendingSlotIndex |-> index]

----------------------------------------------------------------------------
(* The constructor.                                                        *)

\* const durationMaxValueSec = 10 * 3600
durationMaxValueSec == 36000

NumberIsInteger(n) == n % Resolution = 0

NotAnInteger == "Duration must be an integer number of seconds"

OutOfRange == "durection must be in (0, 36000]"

SumMismatch == "Single break duration must be equal to the sum of split break durations"

FirstNotShorter == "First part of a split break must be shorter than the second part"

NoError == "none"

\* isValidDuration with the lower end of the range included: 0 is accepted.
isValidDuration_ZeroAccepted(durationSec) ==
    IF ~NumberIsInteger(durationSec)
    THEN NotAnInteger
    ELSE IF durationSec < 0 \/ durationSec > durationMaxValueSec * Resolution
         THEN OutOfRange
         ELSE NoError

\* isValidDuration(durationSec): the message it throws, NoError if it returns.
isValidDuration(durationSec) ==
    IF ~NumberIsInteger(durationSec)
    THEN NotAnInteger
    ELSE IF durationSec <= 0 \/ durationSec > durationMaxValueSec * Resolution
         THEN OutOfRange
         ELSE NoError

\* The first Error the constructor throws for the arguments a, NoError if
\* it runs to its end.
constructorError(a) ==
    LET checks == <<isValidDuration(a.maxDrivingDurationSec),
                    isValidDuration(a.singleBreakDurationSec),
                    isValidDuration(a.splitBreakDurations[1]),
                    isValidDuration(a.splitBreakDurations[2])>>
        failed == {k \in 1..4 : checks[k] # NoError}
    IN IF failed # {}
       THEN checks[CHOOSE k \in failed : \A m \in failed : k <= m]
       ELSE IF a.singleBreakDurationSec # a.splitBreakDurations[1] + a.splitBreakDurations[2]
            THEN SumMismatch
            ELSE IF a.splitBreakDurations[1] > a.splitBreakDurations[2]
                 THEN FirstNotShorter
                 ELSE NoError

----------------------------------------------------------------------------
(* checkDailyCompliance: the transition of one slot.  st is this.state,    *)
(* sched the DailySchedule, idx the loop index i.                          *)

isLastSlot(sched, slotIndex) == slotIndex = Len(sched.slotsSequence) - 1

\* driveCase comparing with >= : driving exactly the maximum is reported.
driveCase_AtMaximum(st, sched, idx) ==
    LET curSlotDurationSec == sched.slotsSequence[idx + 1].durationSeconds
        drivingTime == st.drivingTime + curSlotDurationSec
        st1 == [st EXCEPT !.drivingTime = drivingTime]
    IN IF /\ drivingTime >= maxDrivingDurationSec
          /\ st1.infringementReported = FALSE
          /\ ~isLastSlot(sched, idx)
          /\ sched.slotsSequence[idx + 2].slotType # "rest"
       THEN [st1 EXCEPT
               !.infringements =
                   Append(@, Infringement(sched.day, DidNotTakeABreak, drivingTime, idx)),
               !.infringementReported = TRUE]
       ELSE st1

\* driveCase without the look at the following slot.
driveCase_NoLookAhead(st, sched, idx) ==
    LET curSlotDurationSec == sched.slotsSequence[idx + 1].durationSeconds
        drivingTime == st.drivingTime + curSlotDurationSec
        st1 == [st EXCEPT !.drivingTime = drivingTime]
    IN IF /\ drivingTime > maxDrivingDurationSec
          /\ st1.infringementReported = FALSE
       THEN [st1 EXCEPT
               !.infringements =
                   Append(@, Infringement(sched.day, DidNotTakeABreak, drivingTime, idx)),
               !.infringementReported = TRUE]
       ELSE st1

\* driveCase that never sets infringementReported.
driveCase_FlagNotSet(st, sched, idx) ==
    LET curSlotDurationSec == sched.slotsSequence[idx + 1].durationSeconds
        drivingTime == st.drivingTime + curSlotDurationSec
        st1 == [st EXCEPT !.drivingTime = drivingTime]
    IN IF /\ drivingTime > maxDrivingDurationSec
          /\ st1.infringementReported = FALSE
          /\ ~isLastSlot(sched, idx)
          /\ sched.slotsSequence[idx + 2].slotType # "rest"
       THEN [st1 EXCEPT
               !.infringements =
                   Append(@, Infringement(sched.day, DidNotTakeABreak, drivingTime, idx))]
       ELSE st1

\* driveCase pinning the infringement to the slot after the drive slot.
driveCase_NextIndex(st, sched, idx) ==
    LET curSlotDurationSec == sched.slotsSequence[idx + 1].durationSeconds
        drivingTime == st.drivingTime + curSlotDurationSec
        st1 == [st EXCEPT !.drivingTime = drivingTime]
    IN IF /\ drivingTime > maxDrivingDurationSec
          /\ st1.infringementReported = FALSE
          /\ ~isLastSlot(sched, idx)
          /\ sched.slotsSequence[idx + 2].slotType # "rest"
       THEN [st1 EXCEPT
               !.infringements =
                   Append(@, Infringement(sched.day, DidNotTakeABreak, drivingTime, idx + 1)),
               !.infringementReported = TRUE]
       ELSE st1

\* driveCase tolerating the last slot of the day only, not a following rest.
driveCase_LastSlotOnly(st, sched, idx) ==
    LET curSlotDurationSec == sched.slotsSequence[idx + 1].durationSeconds
        drivingTime == st.drivingTime + curSlotDurationSec
        st1 == [st EXCEPT !.drivingTime = drivingTime]
    IN IF /\ drivingTime > maxDrivingDurationSec
          /\ st1.infringementReported = FALSE
          /\ ~isLastSlot(sched, idx)
       THEN [st1 EXCEPT
               !.infringements =
                   Append(@, Infringement(sched.day, DidNotTakeABreak, drivingTime, idx)),
               !.infringementReported = TRUE]
       ELSE st1

\* case 'drive'
driveCase(st, sched, idx) ==
    LET curSlotDurationSec == sched.slotsSequence[idx + 1].durationSeconds
        drivingTime == st.drivingTime + curSlotDurationSec
        st1 == [st EXCEPT !.drivingTime = drivingTime]
    IN IF /\ drivingTime > maxDrivingDurationSec
          /\ st1.infringementReported = FALSE
          /\ ~isLastSlot(sched, idx)
          /\ sched.slotsSequence[idx + 2].slotType # "rest"
       THEN [st1 EXCEPT
               !.infringements =
                   Append(@, Infringement(sched.day, DidNotTakeABreak, drivingTime, idx)),
               !.infringementReported = TRUE]
       ELSE st1

\* restCase that leaves a pending first part of a split break pending.
restCase_SplitKept(st) ==
    [st EXCEPT !.drivingTime = 0,
               !.infringementReported = FALSE]

\* case 'rest'
restCase(st) ==
    [st EXCEPT !.drivingTime = 0,
               !.infringementReported = FALSE,
               !.takingSplitBreak = FALSE]

\* fullBreakCase that leaves infringementReported as it is.
fullBreakCase_FlagKept(st) ==
    [st EXCEPT !.drivingTime = 0,
               !.takingSplitBreak = FALSE]

\* case 'break', curSlotDurationSec >= singleBreakDurationSec
fullBreakCase(st) ==
    [st EXCEPT !.drivingTime = 0,
               !.infringementReported = FALSE,
               !.takingSplitBreak = FALSE]

\* firstPartCase that starts the split break whatever the duration.
firstPartCase_AlwaysStarts(st, sched, idx) ==
    LET curSlotDurationSec == sched.slotsSequence[idx + 1].durationSeconds
    IN IF curSlotDurationSec >= splitBreakDurations[1]
       THEN [st EXCEPT !.takingSplitBreak = TRUE]
       ELSE [st EXCEPT
               !.infringements =
                   Append(@, Infringement(sched.day, Insufficient1st, curSlotDurationSec, idx)),
               !.takingSplitBreak = TRUE]

\* case 'break', shorter than a single break, !takingSplitBreak
firstPartCase(st, sched, idx) ==
    LET curSlotDurationSec == sched.slotsSequence[idx + 1].durationSeconds
    IN IF curSlotDurationSec >= splitBreakDurations[1]
       THEN [st EXCEPT !.takingSplitBreak = TRUE]
       ELSE [st EXCEPT
               !.infringements =
                   Append(@, Infringement(sched.day, Insufficient1st, curSlotDurationSec, idx))]

\* secondPartCase without the recovery: an insufficient second part leaves
\* drivingTime as it is.
secondPartCase_NoRecovery(st, sched, idx) ==
    LET curSlotDurationSec == sched.slotsSequence[idx + 1].durationSeconds
        st1 == IF curSlotDurationSec >= splitBreakDurations[2]
               THEN [st EXCEPT !.drivingTime = 0]
               ELSE [st EXCEPT
                       !.infringements =
                           Append(@, Infringement(sched.day, Insufficient2nd, curSlotDurationSec, idx))]
    IN [st1 EXCEPT !.takingSplitBreak = FALSE,
                   !.infringementReported = FALSE]

\* secondPartCase that leaves infringementReported as it is.
secondPartCase_FlagKept(st, sched, idx) ==
    LET curSlotDurationSec == sched.slotsSequence[idx + 1].durationSeconds
        st1 == IF curSlotDurationSec >= splitBreakDurations[2]
               THEN [st EXCEPT !.drivingTime = 0]
               ELSE [st EXCEPT
                       !.infringements =
                           Append(@, Infringement(sched.day, Insufficient2nd, curSlotDurationSec, idx)),
                       !.drivingTime = 0]
    IN [st1 EXCEPT !.takingSplitBreak = FALSE]

\* case 'break', shorter than a single break, takingSplitBreak
secondPartCase(st, sched, idx) ==
    LET curSlotDurationSec == sched.slotsSequence[idx + 1].durationSeconds
        st1 == IF curSlotDurationSec >= splitBreakDurations[2]
               THEN [st EXCEPT !.drivingTime = 0]
               ELSE [st EXCEPT
                       !.infringements =
                           Append(@, Infringement(sched.day, Insufficient2nd, curSlotDurationSec, idx)),
                       !.drivingTime = 0]
    IN [st1 EXCEPT !.takingSplitBreak = FALSE,
                   !.infringementReported = FALSE]

\* case 'break'
breakCase(st, sched, idx) ==
    IF sched.slotsSequence[idx + 1].durationSeconds >= singleBreakDurationSec
    THEN fullBreakCase(st)
    ELSE IF ~st.takingSplitBreak
         THEN firstPartCase(st, sched, idx)
         ELSE secondPartCase(st, sched, idx)

\* slotTransition where a slot of any other type interrupts a split break.
slotTransition_OtherInterrupts(st, sched, idx) ==
    LET slotType == sched.slotsSequence[idx + 1].slotType
    IN CASE slotType = "drive" -> driveCase(st, sched, idx)
         [] slotType = "rest" -> restCase(st)
         [] slotType = "break" -> breakCase(st, sched, idx)
         [] OTHER -> [st EXCEPT !.takingSplitBreak = FALSE]

\* The body of the for loop: the switch on currentSlot.slotType.  The
\* switch has no case for wait, serviceCustomer and otherWork.
slotTransition(st, sched, idx) ==
    LET slotType == sched.slotsSequence[idx + 1].slotType
    IN CASE slotType = "drive" -> driveCase(st, sched, idx)
         [] slotType = "rest" -> restCase(st)
         [] slotType = "break" -> breakCase(st, sched, idx)
         [] OTHER -> st

\* A reset that empties the list of infringements only.
resetState_ListOnly(st) == [st EXCEPT !.infringements = <<>>]

\* "Reset state before each compliance check": this.state = new CheckerState()
resetState(st) == CheckerState

\* this.state after the first n iterations of checkDailyCompliance(sched),
\* called on a checker whose state is st.
RECURSIVE scanFrom(_, _, _)
scanFrom(st, sched, n) ==
    IF n = 0
    THEN resetState(st)
    ELSE slotTransition(scanFrom(st, sched, n - 1), sched, n - 1)

\* checkDailyCompliance(sched) on a freshly constructed checker.
checkDailyCompliance(sched) ==
    scanFrom(CheckerState, sched, Len(sched.slotsSequence)).infringements

----------------------------------------------------------------------------
(* Inputs.                                                                 *)

Seconds(n) == n * Resolution

Args(maxDriving, singleBreak, firstPart, secondPart) ==
    [maxDrivingDurationSec |-> maxDriving,
     singleBreakDurationSec |-> singleBreak,
     splitBreakDurations |-> <<firstPart, secondPart>>]

\* Constructor arguments of the scanning specifications: Article 7 scaled
\* down (drive 2, single break 5, split break 2 + 3), and the same with the
\* parts of the split break swapped.
ScanArgs ==
    {Args(Seconds(2), Seconds(5), Seconds(2), Seconds(3)),
     Args(Seconds(2), Seconds(5), Seconds(3), Seconds(2))}

\* Constructor arguments of SpecCtor: below, at and above both ends of the
\* accepted range, and 1/Resolution of a second, which is not an integer.
CtorNumbers ==
    {Seconds(0 - 1), 0, 1, Seconds(1), Seconds(2), Seconds(3), Seconds(4),
     Seconds(durationMaxValueSec), Seconds(durationMaxValueSec) + 1,
     Seconds(durationMaxValueSec + 1)}

CtorArgs ==
    {Args(m, b, f, s) : m \in {Seconds(2), Seconds(durationMaxValueSec), 1, 0,
                              Seconds(durationMaxValueSec + 1)},
                        b \in CtorNumbers, f \in CtorNumbers, s \in CtorNumbers}

Slot(slotType, durationSeconds) ==
    [slotType |-> slotType, durationSeconds |-> durationSeconds]

\* Slots around the thresholds of ScanArgs: driving below, at and above the
\* maximum; breaks below the first part, between the parts, between the
\* second part and the single break, and a single break.
Slots ==
    {Slot("drive", d) : d \in {1, 2, 3}} \cup
    {Slot("break", d) : d \in {1, 2, 3, 5}} \cup
    {Slot(t, 1) : t \in {"wait", "serviceCustomer", "otherWork", "rest"}}

\* The slots of the days of a horizon: driving at and above the maximum,
\* the three kinds of breaks shorter and not shorter than a part, other work
\* and rest.
HorizonSlots ==
    {Slot("drive", 2), Slot("drive", 3), Slot("break", 1), Slot("break", 2),
     Slot("break", 5), Slot("otherWork", 1), Slot("rest", 1)}

DayLabels == <<"2026-02-01", "2026-02-02", "2026-02-03", "2026-02-04">>

DailySchedule(day, slotsSequence) ==
    [day |-> day, slotsSequence |-> slotsSequence]

SlotSequences(slots, n) == UNION {[1..k -> slots] : k \in 0..n}

\* One-day horizons whose day has at most n slots.
OneDaySchedules(n) ==
    {<<DailySchedule(DayLabels[1], s)>> : s \in SlotSequences(Slots, n)}

\* Horizons of at most n days of at most MaxDaySlots slots each; day k
\* carries the k-th label.
RECURSIVE HorizonSchedules(_)
HorizonSchedules(n) ==
    IF n = 0
    THEN {<<>>}
    ELSE HorizonSchedules(n - 1) \cup
         {Append(h, DailySchedule(DayLabels[n], s)) :
             h \in {g \in HorizonSchedules(n - 1) : Len(g) = n - 1},
             s \in SlotSequences(HorizonSlots, MaxDaySlots)}

----------------------------------------------------------------------------
(* The state machine.                                                      *)

InitWith(argsSet) ==
    /\ pc = "new"
    /\ args \in argsSet
    /\ error = NoError
    /\ maxDrivingDurationSec = 0
    /\ singleBreakDurationSec = 0
    /\ splitBreakDurations = <<0, 0>>
    /\ state = CheckerState
    /\ schedule = <<>>
    /\ dayIdx = 0
    /\ i = 0
    /\ infringements = <<>>
    /\ result = <<>>
    /\ pc2 = "idle"
    /\ schedule2 = <<>>
    /\ dayIdx2 = 0
    /\ i2 = 0
    /\ infringements2 = <<>>
    /\ result2 = <<>>

\* new BreaksComplianceChecker(...) runs to its end.
Construct ==
    /\ pc = "new"
    /\ constructorError(args) = NoError
    /\ maxDrivingDurationSec' = args.maxDrivingDurationSec \div Resolution
    /\ singleBreakDurationSec' = args.singleBreakDurationSec \div Resolution
    /\ splitBreakDurations' = <<args.splitBreakDurations[1] \div Resolution,
                                args.splitBreakDurations[2] \div Resolution>>
    /\ state' = CheckerState
    /\ pc' = "ready"
    /\ UNCHANGED <<args, error, schedule, dayIdx, i, infringements, result>>
    /\ UNCHANGED frame2

\* new BreaksComplianceChecker(...) throws: there is no instance.
ConstructThrows ==
    /\ pc = "new"
    /\ constructorError(args) # NoError
    /\ error' = constructorError(args)
    /\ pc' = "thrown"
    /\ UNCHANGED <<args, fields, state, schedule, dayIdx, i, infringements, result>>
    /\ UNCHANGED frame2

\* check(s) going on with the list of the previous call.
check_KeepsList(s) ==
    /\ pc = "ready"
    /\ schedule' = s
    /\ infringements' = infringements
    /\ dayIdx' = 1
    /\ pc' = "check"
    /\ UNCHANGED <<args, error, fields, state, i, result>>
    /\ UNCHANGED frame2

\* check(s) is called: let infringements = []
check(s) ==
    /\ pc = "ready"
    /\ schedule' = s
    /\ infringements' = <<>>
    /\ dayIdx' = 1
    /\ pc' = "check"
    /\ UNCHANGED <<args, error, fields, state, i, result>>
    /\ UNCHANGED frame2

\* The daily schedule checkDailyCompliance is scanning.
dailySchedule == schedule[dayIdx]

\* EnterDay with the loop bound off by one: the last day is never entered.
EnterDay_SkipsLast ==
    /\ pc = "check"
    /\ dayIdx < Len(schedule)
    /\ state' = resetState(state)
    /\ i' = 0
    /\ pc' = "scan"
    /\ UNCHANGED <<args, error, fields, schedule, dayIdx, infringements, result>>
    /\ UNCHANGED frame2

\* The for-of loop of check() calls checkDailyCompliance(dailySchedule).
EnterDay ==
    /\ pc = "check"
    /\ dayIdx <= Len(schedule)
    /\ state' = resetState(state)
    /\ i' = 0
    /\ pc' = "scan"
    /\ UNCHANGED <<args, error, fields, schedule, dayIdx, infringements, result>>
    /\ UNCHANGED frame2

ScanSlot(slotTypes) ==
    /\ pc = "scan"
    /\ i < Len(dailySchedule.slotsSequence)
    /\ dailySchedule.slotsSequence[i + 1].slotType \in slotTypes
    /\ state' = slotTransition(state, dailySchedule, i)
    /\ i' = i + 1
    /\ UNCHANGED <<pc, args, error, fields, schedule, dayIdx, infringements, result>>
    /\ UNCHANGED frame2

DriveSlot == ScanSlot({"drive"})

RestSlot == ScanSlot({"rest"})

BreakSlot == ScanSlot({"break"})

OtherSlot == ScanSlot({"wait", "serviceCustomer", "otherWork"})

\* LeaveDay that also returns as soon as the day has an infringement.
LeaveDay_FailFast ==
    /\ pc = "scan"
    /\ \/ i = Len(dailySchedule.slotsSequence)
       \/ state.infringements # <<>>
    /\ infringements' = infringements \o state.infringements
    /\ dayIdx' = dayIdx + 1
    /\ pc' = "check"
    /\ UNCHANGED <<args, error, fields, state, schedule, i, result>>
    /\ UNCHANGED frame2

\* LeaveDay putting the day's infringements in front of the earlier days'.
LeaveDay_Prepends ==
    /\ pc = "scan"
    /\ i = Len(dailySchedule.slotsSequence)
    /\ infringements' = state.infringements \o infringements
    /\ dayIdx' = dayIdx + 1
    /\ pc' = "check"
    /\ UNCHANGED <<args, error, fields, state, schedule, i, result>>
    /\ UNCHANGED frame2

\* checkDailyCompliance returns this.state.infringements, check() concats.
LeaveDay ==
    /\ pc = "scan"
    /\ i = Len(dailySchedule.slotsSequence)
    /\ infringements' = infringements \o state.infringements
    /\ dayIdx' = dayIdx + 1
    /\ pc' = "check"
    /\ UNCHANGED <<args, error, fields, state, schedule, i, result>>
    /\ UNCHANGED frame2

\* return infringements
Return ==
    /\ pc = "check"
    /\ dayIdx > Len(schedule)
    /\ result' = infringements
    /\ pc' = "returned"
    /\ UNCHANGED <<args, error, fields, state, schedule, dayIdx, i, infringements>>
    /\ UNCHANGED frame2

Scan ==
    \/ EnterDay
    \/ DriveSlot
    \/ RestSlot
    \/ BreakSlot
    \/ OtherSlot
    \/ LeaveDay
    \/ Return

\* One check() of a one-day schedule.
Init == InitWith(ScanArgs)

CheckOneDay == pc = "ready" /\ \E s \in OneDaySchedules(MaxSlots) : check(s)

Next == Construct \/ ConstructThrows \/ CheckOneDay \/ Scan

Spec == Init /\ [][Next]_vars

\* One check() of a horizon of several days.
InitHorizon == InitWith(ScanArgs)

CheckHorizon == pc = "ready" /\ \E s \in HorizonSchedules(MaxDays) : check(s)

NextHorizon == Construct \/ ConstructThrows \/ CheckHorizon \/ Scan

SpecHorizon == InitHorizon /\ [][NextHorizon]_vars

\* One check() of a horizon of several days, with the scheduling of the
\* code: check() is synchronous, a call that has started runs every step of
\* its loops until it returns.  The days are made of a drive over the
\* maximum, breaks below and at the first part, other work and rest.
LiveSlots ==
    {Slot("drive", 3), Slot("break", 1), Slot("break", 2),
     Slot("otherWork", 1), Slot("rest", 1)}

RECURSIVE LiveSchedules(_)
LiveSchedules(n) ==
    IF n = 0
    THEN {<<>>}
    ELSE LiveSchedules(n - 1) \cup
         {Append(h, DailySchedule(DayLabels[n], s)) :
             h \in {g \in LiveSchedules(n - 1) : Len(g) = n - 1},
             s \in SlotSequences(LiveSlots, MaxDaySlots)}

InitLive == InitWith(ScanArgs)

CheckLive == pc = "ready" /\ \E s \in LiveSchedules(MaxDays) : check(s)

NextLive == Construct \/ ConstructThrows \/ CheckLive \/ Scan

SpecLive == InitLive /\ [][NextLive]_vars /\ WF_vars(Scan)

\* Any number of check() calls, one after the other, on one instance: the
\* caller takes the returned value and the instance is ready again.
CallAgain ==
    /\ pc = "returned"
    /\ pc' = "ready"
    /\ UNCHANGED <<args, error, fields, state, schedule, dayIdx, i, infringements, result>>
    /\ UNCHANGED frame2

InitCalls == InitWith(ScanArgs)

CheckOneOfSeveral == pc = "ready" /\ \E s \in HorizonSchedules(1) : check(s)

NextCalls == Construct \/ ConstructThrows \/ CheckOneOfSeveral \/ Scan \/ CallAgain

SpecCalls == InitCalls /\ [][NextCalls]_vars

\* Two check() calls on one instance, their steps interleaved slot by slot.
\* The locals of the first call.
frame1 == <<pc, schedule, dayIdx, i, infringements, result>>

\* The second check(s) is called on the constructed instance.
check2(s) ==
    /\ pc2 = "idle"
    /\ pc \in {"ready", "check", "scan", "returned"}
    /\ schedule2' = s
    /\ infringements2' = <<>>
    /\ dayIdx2' = 1
    /\ pc2' = "check"
    /\ UNCHANGED <<args, error, fields, state, frame1, i2, result2>>

dailySchedule2 == schedule2[dayIdx2]

\* The second call enters checkDailyCompliance: this.state = new CheckerState()
EnterDay2 ==
    /\ pc2 = "check"
    /\ dayIdx2 <= Len(schedule2)
    /\ state' = resetState(state)
    /\ i2' = 0
    /\ pc2' = "scan"
    /\ UNCHANGED <<args, error, fields, frame1, schedule2, dayIdx2, infringements2, result2>>

\* The second call scans one slot, on this.state.
ScanSlot2 ==
    /\ pc2 = "scan"
    /\ i2 < Len(dailySchedule2.slotsSequence)
    /\ state' = slotTransition(state, dailySchedule2, i2)
    /\ i2' = i2 + 1
    /\ UNCHANGED <<args, error, fields, frame1, pc2, schedule2, dayIdx2, infringements2, result2>>

\* The second call's day scan returns this.state.infringements.
LeaveDay2 ==
    /\ pc2 = "scan"
    /\ i2 = Len(dailySchedule2.slotsSequence)
    /\ infringements2' = infringements2 \o state.infringements
    /\ dayIdx2' = dayIdx2 + 1
    /\ pc2' = "check"
    /\ UNCHANGED <<args, error, fields, state, frame1, schedule2, i2, result2>>

\* The second call returns.
Return2 ==
    /\ pc2 = "check"
    /\ dayIdx2 > Len(schedule2)
    /\ result2' = infringements2
    /\ pc2' = "returned"
    /\ UNCHANGED <<args, error, fields, state, frame1, schedule2, dayIdx2, i2, infringements2>>

\* The days of the two calls: a drive over the maximum, a break below the
\* first part, other work and rest.
InterleavedSlots ==
    {Slot("drive", 3), Slot("break", 1), Slot("otherWork", 1), Slot("rest", 1)}

InterleavedSchedules(n) ==
    {<<DailySchedule(DayLabels[1], s)>> : s \in SlotSequences(InterleavedSlots, n)}

InitInterleaved == InitWith(ScanArgs)

CheckFirst == pc = "ready" /\ \E s \in InterleavedSchedules(MaxDaySlots) : check(s)

CheckSecond == pc2 = "idle" /\ \E s \in InterleavedSchedules(MaxDaySlots) : check2(s)

NextInterleaved ==
    \/ Construct
    \/ ConstructThrows
    \/ CheckFirst
    \/ Scan
    \/ CheckSecond
    \/ EnterDay2
    \/ ScanSlot2
    \/ LeaveDay2
    \/ Return2

SpecInterleaved == InitInterleaved /\ [][NextInterleaved]_vars

\* One check() of a day drive, first part, drive, second part, drive.
InitSplit == InitWith(ScanArgs)

SplitBreakDay(a, b, c) ==
    DailySchedule(DayLabels[1],
                  <<Slot("drive", a), Slot("break", splitBreakDurations[1]),
                    Slot("drive", b), Slot("break", splitBreakDurations[2]),
                    Slot("drive", c)>>)

CheckSplitBreakDay ==
    pc = "ready" /\ \E a, b, c \in {1, 2, 3} : check(<<SplitBreakDay(a, b, c)>>)

NextSplit ==
    \/ Construct
    \/ ConstructThrows
    \/ CheckSplitBreakDay
    \/ EnterDay
    \/ DriveSlot
    \/ BreakSlot
    \/ LeaveDay
    \/ Return

SpecSplit == InitSplit /\ [][NextSplit]_vars

\* The constructor over a wide range of arguments, then one check() of a
\* day of at most one slot.
InitCtor == InitWith(CtorArgs)

CheckShortDay == pc = "ready" /\ \E s \in OneDaySchedules(1) : check(s)

NextCtor == Construct \/ ConstructThrows \/ CheckShortDay \/ Scan

SpecCtor == InitCtor /\ [][NextCtor]_vars

----------------------------------------------------------------------------
(* Claims about the constructor (SpecCtor).                                *)

\* A constructor argument, as the claims speak of it: an integer number of
\* seconds in (0, 36000].
IntegerInRange(n) ==
    /\ n % Resolution = 0
    /\ n > 0
    /\ n <= 36000 * Resolution

Durations(a) ==
    {a.maxDrivingDurationSec, a.singleBreakDurationSec,
     a.splitBreakDurations[1], a.splitBreakDurations[2]}

Rejectable(a) ==
    \/ \E n \in Durations(a) : ~IntegerInRange(n)
    \/ a.splitBreakDurations[1] + a.splitBreakDurations[2] # a.singleBreakDurationSec
    \/ a.splitBreakDurations[1] > a.splitBreakDurations[2]

Constructed == pc \notin {"new", "thrown"}

C2_FirstPartNotShorterRejected ==
    (pc # "new" /\ args.splitBreakDurations[1] >= args.splitBreakDurations[2])
        => pc = "thrown"

----------------------------------------------------------------------------
(* The vocabulary of the claims about a day scan, defined on the day's     *)
(* slots alone.  Slot indices are the code's: 0 .. Len - 1.                *)

\* The day of a one-day schedule.
Day == schedule[1]

SlotAt(sched, m) == sched.slotsSequence[m + 1]

IsDrive(sched, m) == SlotAt(sched, m).slotType = "drive"

\* A break shorter than a single break.
IsShortBreak(sched, m) ==
    /\ SlotAt(sched, m).slotType = "break"
    /\ SlotAt(sched, m).durationSeconds < singleBreakDurationSec

\* A split break is in progress before slot m: the latest rest or break
\* before m is a short break of at least the first part, itself met while
\* no split break was in progress.
RECURSIVE MidSplit(_, _)
MidSplit(sched, m) ==
    IF m = 0
    THEN FALSE
    ELSE LET prev == SlotAt(sched, m - 1)
         IN CASE prev.slotType = "rest" -> FALSE
              [] prev.slotType = "break" ->
                    /\ IsShortBreak(sched, m - 1)
                    /\ ~MidSplit(sched, m - 1)
                    /\ prev.durationSeconds >= splitBreakDurations[1]
              [] OTHER -> MidSplit(sched, m - 1)

\* Slot m resets the driving time: a rest, a break of at least a single
\* break, or the second break of a split break.
ResetAt(sched, m) ==
    \/ SlotAt(sched, m).slotType = "rest"
    \/ /\ SlotAt(sched, m).slotType = "break"
       /\ SlotAt(sched, m).durationSeconds >= singleBreakDurationSec
    \/ IsShortBreak(sched, m) /\ MidSplit(sched, m)

\* Driving accumulated before slot m since the last reset.
RECURSIVE DrivenBefore(_, _)
DrivenBefore(sched, m) ==
    IF m = 0
    THEN 0
    ELSE IF ResetAt(sched, m - 1)
         THEN 0
         ELSE IF IsDrive(sched, m - 1)
              THEN DrivenBefore(sched, m - 1) + SlotAt(sched, m - 1).durationSeconds
              ELSE DrivenBefore(sched, m - 1)

\* Driving accumulated once the drive slot m is over.
DrivenAfter(sched, m) == DrivenBefore(sched, m) + SlotAt(sched, m).durationSeconds

\* Slot m is the last of the day or is immediately followed by rest.
RestFollows(sched, m) ==
    \/ m = Len(sched.slotsSequence) - 1
    \/ SlotAt(sched, m + 1).slotType = "rest"

IsExcess(inf) == inf.brokenRule[1] = DidNotTakeABreak

\* The excess-driving infringements of a list, as indices into the list.
Excess(infs) == {k \in 1..Len(infs) : IsExcess(infs[k])}

\* An excess-driving infringement was reported before slot m and no reset
\* lies between its slot and m.
ReportedSinceReset(sched, infs, m) ==
    \E k \in Excess(infs) :
        \A r \in (infs[k].offendingSlotIndex + 1)..(m - 1) : ~ResetAt(sched, r)

\* The scan is about to handle slot i, a slot of one of the given types.
AtSlot(slotTypes) ==
    /\ pc = "scan"
    /\ i < Len(dailySchedule.slotsSequence)
    /\ SlotAt(dailySchedule, i).slotType \in slotTypes

\* The step taken is the transition of slot i.
SlotStep(slotTypes) == AtSlot(slotTypes) /\ i' = i + 1

EmitsNothing == state'.infringements = state.infringements

EmitsOnly(rule, n) ==
    state'.infringements =
        Append(state.infringements,
               [articleNumber |-> [value |-> 7],
                day |-> dailySchedule.day,
                brokenRule |-> <<rule, n>>,
                offendingSlotIndex |-> i])

----------------------------------------------------------------------------
(* Claims about the scan of one day (Spec).                                *)

\* C3: a drive slot i that brings the accumulated driving time above
\* maxDrivingDuration, with no excess-driving infringement reported since
\* the last reset, i not the last index and slot i + 1 not rest, emits
\* exactly one infringement 'Driver did not take a break' with
\* offendingSlotIndex i and the day's label, and sets the reported flag; a
\* drive slot that leaves the driving time at or below maxDrivingDuration
\* emits nothing.
C3_ExcessDrivingReported ==
    [][SlotStep({"drive"}) =>
          /\ state'.drivingTime = DrivenAfter(dailySchedule, i)
          /\ (/\ DrivenAfter(dailySchedule, i) > maxDrivingDurationSec
              /\ ~ReportedSinceReset(dailySchedule, state.infringements, i)
              /\ ~RestFollows(dailySchedule, i))
                => /\ EmitsOnly(DidNotTakeABreak, DrivenAfter(dailySchedule, i))
                   /\ state'.infringementReported
          /\ DrivenAfter(dailySchedule, i) <= maxDrivingDurationSec => EmitsNothing]_vars

\* The slot just scanned is a drive slot that went over the maximum by
\* accumulation over several slots, and the infringement is pinned to it.
C3_Witness ==
    /\ pc = "scan"
    /\ i > 1
    /\ IsDrive(Day, i - 1)
    /\ SlotAt(Day, i - 1).durationSeconds <= maxDrivingDurationSec
    /\ state.drivingTime > maxDrivingDurationSec
    /\ state.infringementReported
    /\ Len(state.infringements) = 1
    /\ state.infringements[1].offendingSlotIndex = i - 1
    /\ IsExcess(state.infringements[1])

C5_OncePerStreak ==
    pc \in {"scan", "check"} =>
        \A k, l \in Excess(state.infringements) :
            k < l =>
                \E r \in (state.infringements[k].offendingSlotIndex + 1)
                            ..(state.infringements[l].offendingSlotIndex - 1) :
                    ResetAt(Day, r)

\* After the infringement of a streak, an insufficient first-part break and
\* a further drive slot that is not followed by rest were scanned without a
\* second 'did not take a break'.
C5_Witness ==
    /\ pc = "scan"
    /\ i >= 3
    /\ i < Len(Day.slotsSequence)
    /\ IsDrive(Day, i - 1)
    /\ ~RestFollows(Day, i - 1)
    /\ SlotAt(Day, i - 2).slotType = "break"
    /\ SlotAt(Day, i - 2).durationSeconds < splitBreakDurations[1]
    /\ ~ResetAt(Day, i - 2)
    /\ Cardinality(Excess(state.infringements)) = 1
    /\ \E k \in Excess(state.infringements) :
          state.infringements[k].offendingSlotIndex = i - 3

\* The ends of the drive streaks of a day: the reset slots and the end of
\* the day.  The streak that ends at m is made of the slots before m back
\* to the previous reset.
StreakEnds(sched) ==
    {m \in 0..Len(sched.slotsSequence) :
        m = Len(sched.slotsSequence) \/ ResetAt(sched, m)}

StreakSlots(sched, m) ==
    {j \in 0..(m - 1) : \A r \in j..(m - 1) : ~ResetAt(sched, r)}

\* The streaks that accumulate more than the maximum.
OverStreaks(sched) ==
    {m \in StreakEnds(sched) : DrivenBefore(sched, m) > maxDrivingDurationSec}

\* A drive slot that leaves the accumulated driving above the maximum and
\* is neither the last slot of the day nor immediately followed by rest.
Reportable(sched, j) ==
    /\ IsDrive(sched, j)
    /\ DrivenAfter(sched, j) > maxDrivingDurationSec
    /\ ~RestFollows(sched, j)

ReportableStreaks(sched) ==
    {m \in StreakEnds(sched) : \E j \in StreakSlots(sched, m) : Reportable(sched, j)}

\* Two streaks of the day go over the maximum, and the first of them ends
\* with a rest or with a break of at least a single break.
TwoOverStreaks(sched) ==
    /\ Cardinality(OverStreaks(sched)) = 2
    /\ \E m \in OverStreaks(sched) :
          /\ m < Len(sched.slotsSequence)
          /\ \A n \in OverStreaks(sched) : m <= n
          /\ ~IsShortBreak(sched, m)

\* C6 as claimed: a day with two separate streaks over the maximum yields
\* exactly two excess-driving infringements.
C6_TwoStreaksTwoInfringements ==
    (pc = "returned" /\ TwoOverStreaks(Day)) => Cardinality(Excess(result)) = 2

\* C6 as amended: such a day yields one excess-driving infringement for each
\* streak that has a drive slot leaving the accumulated driving above the
\* maximum which is neither the last slot of the day nor immediately followed
\* by rest (two when both streaks have one), and none for a streak without.
C6_OnePerReportableStreak ==
    (pc = "returned" /\ TwoOverStreaks(Day)) =>
        /\ Cardinality(Excess(result)) = Cardinality(ReportableStreaks(Day))
        /\ \A m \in ReportableStreaks(Day) :
              \E k \in Excess(result) : result[k].offendingSlotIndex \in StreakSlots(Day, m)

\* Two streaks over the maximum, both reported.
C6_Witness ==
    /\ pc = "returned"
    /\ TwoOverStreaks(Day)
    /\ Cardinality(ReportableStreaks(Day)) = 2
    /\ Cardinality(Excess(result)) = 2

\* The breaks of a day that are shorter than the first part and met while
\* no split break is in progress.
InsufficientFirstParts(sched) ==
    {m \in 0..(Len(sched.slotsSequence) - 1) :
        /\ SlotAt(sched, m).slotType = "break"
        /\ SlotAt(sched, m).durationSeconds < splitBreakDurations[1]
        /\ ~MidSplit(sched, m)}

\* C8: a break shorter than the first part, met while no split break is in
\* progress, emits exactly one infringement '1st break duration' at its own
\* index and leaves drivingTime, the split-break flag and the reported flag
\* as they were; a day yields one such infringement per such slot, however
\* many there are.
C8_InsufficientFirstPart ==
    /\ [][(SlotStep({"break"}) /\ i \in InsufficientFirstParts(dailySchedule)) =>
             /\ EmitsOnly(Insufficient1st, SlotAt(dailySchedule, i).durationSeconds)
             /\ state'.drivingTime = state.drivingTime
             /\ state'.takingSplitBreak = state.takingSplitBreak
             /\ state'.infringementReported = state.infringementReported]_vars
    /\ [](pc = "returned" =>
             \A m \in InsufficientFirstParts(Day) :
                 Cardinality({k \in 1..Len(result) :
                                 /\ result[k].offendingSlotIndex = m
                                 /\ result[k].brokenRule[1] = Insufficient1st}) = 1)

\* Every slot of a day of MaxSlots slots was such a break, after a first
\* drive slot: one infringement each, the driving time kept.
C8_Witness ==
    /\ pc = "scan"
    /\ i = MaxSlots
    /\ IsDrive(Day, 0)
    /\ Len(state.infringements) = MaxSlots - 1
    /\ \A k \in 1..Len(state.infringements) :
          state.infringements[k].brokenRule[1] = Insufficient1st
    /\ state.drivingTime > 0

RECURSIVE SumDrive(_, _, _)
\* The driving of the slots from..to of a day.
SumDrive(sched, from, to) ==
    IF from > to
    THEN 0
    ELSE SumDrive(sched, from, to - 1) +
         (IF IsDrive(sched, to) THEN SlotAt(sched, to).durationSeconds ELSE 0)

\* C9: a break shorter than the second part (and than a single break), met
\* while a split break is in progress, emits exactly one infringement
\* '2nd break duration' at its index, resets drivingTime to 0 and clears
\* the split-break flag and the reported flag; an excess-driving
\* infringement after it needs more than maxDrivingDuration of driving done
\* after it.
C9_InsufficientSecondPart ==
    /\ [][(/\ SlotStep({"break"})
           /\ MidSplit(dailySchedule, i)
           /\ SlotAt(dailySchedule, i).durationSeconds < splitBreakDurations[2]
           /\ SlotAt(dailySchedule, i).durationSeconds < singleBreakDurationSec) =>
             /\ EmitsOnly(Insufficient2nd, SlotAt(dailySchedule, i).durationSeconds)
             /\ state'.drivingTime = 0
             /\ state'.takingSplitBreak = FALSE
             /\ state'.infringementReported = FALSE]_vars
    /\ [](pc \in {"scan", "check"} =>
             \A k, l \in 1..Len(state.infringements) :
                 (/\ k < l
                  /\ state.infringements[k].brokenRule[1] = Insufficient2nd
                  /\ IsExcess(state.infringements[l])) =>
                     SumDrive(Day, state.infringements[k].offendingSlotIndex + 1,
                              state.infringements[l].offendingSlotIndex)
                         > maxDrivingDurationSec)

\* Some driving, a first part, an insufficient second part and the maximum
\* of driving again: the only infringement is the one of the second part
\* and the driving time is that of the last slot alone.
C9_Witness ==
    /\ pc = "scan"
    /\ i >= 4
    /\ IsDrive(Day, i - 1)
    /\ SlotAt(Day, i - 1).durationSeconds = maxDrivingDurationSec
    /\ MidSplit(Day, i - 2)
    /\ IsShortBreak(Day, i - 2)
    /\ SlotAt(Day, i - 2).durationSeconds < splitBreakDurations[2]
    /\ SumDrive(Day, 0, i - 3) > 0
    /\ Len(state.infringements) = 1
    /\ state.infringements[1].brokenRule[1] = Insufficient2nd
    /\ state.drivingTime = maxDrivingDurationSec

----------------------------------------------------------------------------
(* Claims about the split break (SpecSplit).                               *)

\* C7: a day drive(a), break(firstPart), drive(b), break(secondPart),
\* drive(c) whose drive slots are each at most maxDrivingDuration yields no
\* infringement.
C7_SplitBreakCompliant ==
    (/\ pc = "returned"
     /\ \A m \in {0, 2, 4} : SlotAt(Day, m).durationSeconds <= maxDrivingDurationSec)
        => result = <<>>

----------------------------------------------------------------------------
(* Claims about a horizon of several days (SpecHorizon).                   *)

\* check([d1]) \o ... \o check([dn]) for the first n days of a horizon, each
\* on a freshly constructed checker.
RECURSIVE checkedAlone(_, _)
checkedAlone(h, n) ==
    IF n = 0
    THEN <<>>
    ELSE checkedAlone(h, n - 1) \o checkDailyCompliance(h[n])

\* C10: check([d1..dk]) is the concatenation, in schedule order, of
\* check([d1]), ..., check([dk]); the scan of a day goes through the states
\* it goes through when the day is checked alone, whatever the days before
\* it left behind.
C10_DaysIndependent ==
    /\ pc = "scan" => state = scanFrom(CheckerState, dailySchedule, i)
    /\ pc = "check" => infringements = checkedAlone(schedule, dayIdx - 1)
    /\ pc = "returned" => result = checkedAlone(schedule, Len(schedule))

\* The first day ended over the maximum, with a first part pending and its
\* infringement reported; the second day starts with driving of the
\* maximum, not followed by rest, and contributes nothing.
C10_Witness ==
    /\ pc = "returned"
    /\ Len(schedule) = 2
    /\ LET last == scanFrom(CheckerState, schedule[1], Len(schedule[1].slotsSequence))
       IN /\ last.drivingTime > maxDrivingDurationSec
          /\ last.infringementReported
    /\ Len(schedule[2].slotsSequence) = 2
    /\ schedule[2].slotsSequence[1] = Slot("drive", maxDrivingDurationSec)
    /\ schedule[2].slotsSequence[2].slotType = "otherWork"
    /\ Len(result) = 1
    /\ result[1].day = schedule[1].day

\* The days of the horizon that carry a label (one day: the labels of a
\* horizon are distinct).
DaysLabelled(label) == {d \in 1..Len(schedule) : schedule[d].day = label}

\* infs is ordered by (position of the day in the schedule, slot index),
\* strictly.
OrderedByDayAndSlot(infs) ==
    \A k, l \in 1..Len(infs) :
        k < l =>
            \E dk \in DaysLabelled(infs[k].day), dl \in DaysLabelled(infs[l].day) :
                \/ dk < dl
                \/ /\ dk = dl
                   /\ infs[k].offendingSlotIndex < infs[l].offendingSlotIndex

\* C11: the sequence returned by check is ordered by (position of the day
\* in the schedule, offendingSlotIndex): every infringement carries the
\* label of a day of the schedule, those of an earlier day come first, and
\* within a day the slot indices increase strictly.
C11_OrderedResult ==
    /\ pc = "scan" =>
          /\ OrderedByDayAndSlot(infringements \o state.infringements)
          /\ \A k \in 1..Len(state.infringements) :
                /\ state.infringements[k].day = dailySchedule.day
                /\ state.infringements[k].offendingSlotIndex < i
          /\ \A k \in 1..Len(infringements) :
                \E d \in DaysLabelled(infringements[k].day) : d < dayIdx
    /\ pc = "returned" => OrderedByDayAndSlot(result)

\* Two infringements of the first day, at slots 0 and 1, then one of the
\* second day at slot 0.
C11_Witness ==
    /\ pc = "returned"
    /\ Len(schedule) = 2
    /\ Len(result) = 3
    /\ result[1].day = schedule[1].day /\ result[1].offendingSlotIndex = 0
    /\ result[2].day = schedule[1].day /\ result[2].offendingSlotIndex = 1
    /\ result[3].day = schedule[2].day /\ result[3].offendingSlotIndex = 0

\* The infringement inf can come from slot m of the day sched: m is an
\* index of the day, and the slot is a drive slot for 'did not take a
\* break', a break slot of the reported duration for the two others.
PinnedTo(inf, sched) ==
    /\ inf.offendingSlotIndex \in 0..(Len(sched.slotsSequence) - 1)
    /\ IF IsExcess(inf)
       THEN IsDrive(sched, inf.offendingSlotIndex)
       ELSE /\ SlotAt(sched, inf.offendingSlotIndex).slotType = "break"
            /\ SlotAt(sched, inf.offendingSlotIndex).durationSeconds = inf.brokenRule[2]

\* C12: every infringement has an offendingSlotIndex that is an index into
\* the slots of the day whose label it carries, and the slot there is the
\* drive slot or the break slot that emitted it.
C12_ValidSlotIndex ==
    /\ pc = "scan" =>
          \A k \in 1..Len(state.infringements) :
              PinnedTo(state.infringements[k], dailySchedule)
    /\ pc = "returned" =>
          \A k \in 1..Len(result) :
              \E d \in DaysLabelled(result[k].day) : PinnedTo(result[k], schedule[d])

\* The second day of a horizon returned an infringement at its first slot,
\* a drive slot, and one at its last slot, a break.
C12_Witness ==
    /\ pc = "returned"
    /\ Len(schedule) = 2
    /\ Len(schedule[2].slotsSequence) = MaxDaySlots
    /\ \E k, l \in 1..Len(result) :
          /\ result[k].day = schedule[2].day
          /\ result[k].offendingSlotIndex = 0
          /\ IsExcess(result[k])
          /\ result[l].day = schedule[2].day
          /\ result[l].offendingSlotIndex = MaxDaySlots - 1
          /\ ~IsExcess(result[l])

----------------------------------------------------------------------------
(* Termination of check (SpecLive).                                        *)

\* The breaks of a day that are shorter than the second part and met while
\* a split break is in progress.
InsufficientSecondParts(sched) ==
    {m \in 0..(Len(sched.slotsSequence) - 1) :
        /\ IsShortBreak(sched, m)
        /\ SlotAt(sched, m).durationSeconds < splitBreakDurations[2]
        /\ MidSplit(sched, m)}

\* No slot of the day triggers a violation.
NoViolation(sched) ==
    /\ ReportableStreaks(sched) = {}
    /\ InsufficientFirstParts(sched) = {}
    /\ InsufficientSecondParts(sched) = {}

\* C13: a check call on a finite horizon (the empty horizon and days
\* without slots included) eventually returns, whatever infringements the
\* input contains, without an error; what it returns is empty when no slot
\* triggers a violation.
C13_CheckReturns ==
    /\ (pc = "check") ~> (pc = "returned")
    /\ [](Constructed => error = NoError /\ pc \in {"ready", "check", "scan", "returned"})
    /\ [](pc = "returned" =>
             ((\A d \in 1..Len(schedule) : NoViolation(schedule[d])) => result = <<>>))

\* check returned infringements for a horizon whose first day has no slot.
C13_Witness ==
    /\ pc = "returned"
    /\ Len(schedule) = MaxDays
    /\ schedule[1].slotsSequence = <<>>
    /\ result # <<>>

----------------------------------------------------------------------------
(* Claims about several calls on one instance (SpecCalls).                 *)

\* C14: in any sequence of check calls on one instance, the value a call
\* returns is the value check returns for its argument on a freshly
\* constructed checker: it depends on the argument alone, whatever was
\* checked before.
C14_ResultDependsOnArgumentOnly ==
    [][(pc = "check" /\ pc' = "returned") =>
          result' = checkedAlone(schedule, Len(schedule))]_vars

\* A call starts, for a day of driving of the maximum followed by other
\* work, on an instance whose previous call returned an infringement and
\* left a driving time over the maximum with the reported flag set.
C14_Witness ==
    /\ pc = "check"
    /\ dayIdx = 1
    /\ Len(schedule) = 1
    /\ Len(schedule[1].slotsSequence) = 2
    /\ schedule[1].slotsSequence[1] = Slot("drive", maxDrivingDurationSec)
    /\ schedule[1].slotsSequence[2].slotType = "otherWork"
    /\ result # <<>>
    /\ state.drivingTime > maxDrivingDurationSec
    /\ state.infringementReported

----------------------------------------------------------------------------
(* Further claims about the scan (Spec, SpecHorizon).                      *)

\* C15: a day whose total drive time is at most maxDrivingDuration and that
\* has no break slot yields no infringement, however its drive, wait,
\* serviceCustomer, otherWork and rest slots are arranged.
C15_CompliantWithoutBreak ==
    (/\ pc = "returned"
     /\ SumDrive(Day, 0, Len(Day.slotsSequence) - 1) <= maxDrivingDurationSec
     /\ \A m \in 0..(Len(Day.slotsSequence) - 1) : SlotAt(Day, m).slotType # "break")
        => result = <<>>

\* A day of MaxSlots slots whose drive slots add up to exactly the
\* maximum, the last of them followed by a slot that is not rest.
C15_Witness ==
    /\ pc = "returned"
    /\ Len(Day.slotsSequence) = MaxSlots
    /\ SumDrive(Day, 0, MaxSlots - 1) = maxDrivingDurationSec
    /\ \A m \in 0..(MaxSlots - 1) : SlotAt(Day, m).slotType # "break"
    /\ IsDrive(Day, 0)
    /\ IsDrive(Day, MaxSlots - 2)
    /\ SlotAt(Day, MaxSlots - 1).slotType = "wait"
    /\ result = <<>>

\* The infringements of a list that carry the label of the day sched.
OfDay(infs, sched) == {k \in 1..Len(infs) : infs[k].day = sched.day}

\* C16: the scan does not stop at the first infringement.  A day is left
\* only when its last slot has been handled and check returns only after
\* its last day, so a violation that does not depend on an earlier one is
\* still reported: every insufficient part of a split break, and the excess
\* driving of every streak that has a reportable slot.
C16_ScanGoesOn ==
    /\ [][(pc = "scan" /\ pc' # "scan") => i = Len(dailySchedule.slotsSequence)]_vars
    /\ [][(pc = "check" /\ pc' = "returned") => dayIdx = Len(schedule) + 1]_vars
    /\ [](pc = "returned" =>
             \A d \in 1..Len(schedule) :
                 /\ \A m \in InsufficientFirstParts(schedule[d])
                             \cup InsufficientSecondParts(schedule[d]) :
                       \E k \in OfDay(result, schedule[d]) :
                           /\ result[k].offendingSlotIndex = m
                           /\ ~IsExcess(result[k])
                 /\ \A m \in ReportableStreaks(schedule[d]) :
                       \E k \in OfDay(result, schedule[d]) :
                           /\ result[k].offendingSlotIndex \in StreakSlots(schedule[d], m)
                           /\ IsExcess(result[k]))

\* The first day has an excess-driving infringement at slot 0 and an
\* insufficient first part at slot 1, the second day an infringement too:
\* all three are returned.
C16_Witness ==
    /\ pc = "returned"
    /\ Len(schedule) = 2
    /\ Len(result) = 3
    /\ IsExcess(result[1]) /\ result[1].offendingSlotIndex = 0
    /\ result[2].brokenRule[1] = Insufficient1st /\ result[2].offendingSlotIndex = 1
    /\ result[2].day = schedule[1].day
    /\ result[3].day = schedule[2].day

\* C17: a day that is a single drive slot longer than maxDrivingDuration
\* yields exactly one infringement, at offendingSlotIndex 0, with the day's
\* label and the message 'Driver did not take a break'.
C17_SingleLongDriveFlagged ==
    (/\ pc = "returned"
     /\ Len(Day.slotsSequence) = 1
     /\ IsDrive(Day, 0)
     /\ SlotAt(Day, 0).durationSeconds > maxDrivingDurationSec)
        => /\ Len(result) = 1
           /\ result[1].offendingSlotIndex = 0
           /\ result[1].day = Day.day
           /\ IsExcess(result[1])

\* The last drive slot of the streak that ends at m.
LastDriveOf(sched, m) ==
    {j \in StreakSlots(sched, m) :
        /\ IsDrive(sched, j)
        /\ \A n \in StreakSlots(sched, m) : IsDrive(sched, n) => n <= j}

\* The excess-driving infringements pinned to a slot of the streak that
\* ends at m.
ExcessOfStreak(infs, sched, m) ==
    {k \in Excess(infs) : infs[k].offendingSlotIndex \in StreakSlots(sched, m)}

C19_OtherSlotsPassThrough ==
    [][SlotStep({"wait", "serviceCustomer", "otherWork"}) =>
          /\ state'.drivingTime = state.drivingTime
          /\ state'.takingSplitBreak = state.takingSplitBreak
          /\ state'.infringementReported = state.infringementReported
          /\ state'.infringements = state.infringements]_vars

\* An otherWork slot was scanned between the two parts of a split break,
\* with a driving time over the maximum already reported.
C19_Witness ==
    /\ pc = "scan"
    /\ i >= 3
    /\ SlotAt(Day, i - 1).slotType = "otherWork"
    /\ MidSplit(Day, i - 1)
    /\ state.takingSplitBreak
    /\ state.infringementReported
    /\ state.drivingTime > maxDrivingDurationSec
    /\ Len(state.infringements) = 1

\* Slot m is a rest, or a break of at least a single break.
IsFullReset(sched, m) ==
    \/ SlotAt(sched, m).slotType = "rest"
    \/ /\ SlotAt(sched, m).slotType = "break"
       /\ SlotAt(sched, m).durationSeconds >= singleBreakDurationSec

\* C20: a rest slot and a break of at least singleBreakDuration each reset
\* drivingTime to 0 and clear the reported flag and the split-break flag,
\* from any state, and emit nothing; a pending first part is cancelled, so
\* a shorter break that comes next is judged against firstPart.
C20_RestAndFullBreakReset ==
    /\ [][(SlotStep({"rest", "break"}) /\ IsFullReset(dailySchedule, i)) =>
             /\ state'.drivingTime = 0
             /\ state'.infringementReported = FALSE
             /\ state'.takingSplitBreak = FALSE
             /\ EmitsNothing]_vars
    /\ [][(/\ SlotStep({"break"})
           /\ IsShortBreak(dailySchedule, i)
           /\ i > 0
           /\ IsFullReset(dailySchedule, i - 1)) =>
             IF SlotAt(dailySchedule, i).durationSeconds >= splitBreakDurations[1]
             THEN EmitsNothing /\ state'.takingSplitBreak
             ELSE /\ EmitsOnly(Insufficient1st, SlotAt(dailySchedule, i).durationSeconds)
                  /\ ~state'.takingSplitBreak]_vars

\* Driving, a first part, a rest, then a break below the first part: it is
\* reported as an insufficient first part.
C20_Witness ==
    /\ pc = "scan"
    /\ i = 4
    /\ IsDrive(Day, 0)
    /\ MidSplit(Day, 2)
    /\ SlotAt(Day, 2).slotType = "rest"
    /\ SlotAt(Day, 3).slotType = "break"
    /\ Len(state.infringements) >= 1
    /\ state.infringements[Len(state.infringements)].brokenRule[1] = Insufficient1st
    /\ state.infringements[Len(state.infringements)].offendingSlotIndex = 3
    /\ state.drivingTime = 0

----------------------------------------------------------------------------
(* Two interleaved calls on one instance (SpecInterleaved).                *)

\* C21: when two check calls on one instance are interleaved slot by slot,
\* each call returns the result it returns when it runs alone.
C21_InterleavedCallsIndependent ==
    /\ pc = "returned" => result = checkedAlone(schedule, Len(schedule))
    /\ pc2 = "returned" => result2 = checkedAlone(schedule2, Len(schedule2))

----------------------------------------------------------------------------
(* The reported flag (Spec).                                               *)

\* C22: during a day scan the reported flag is set only while drivingTime
\* is above maxDrivingDuration; the flag is cleared in exactly the
\* transitions that reset drivingTime to 0 (rest, full break, second part
\* of a split break); so an excess-driving infringement is pinned to the
\* first drive slot at which the accumulated driving of its streak exceeds
\* the maximum.
C22_ReportedFlag ==
    /\ [](pc = "scan" =>
             /\ state.infringementReported => state.drivingTime > maxDrivingDurationSec
             /\ state.drivingTime = DrivenBefore(dailySchedule, i)
             /\ \A k \in Excess(state.infringements) :
                   LET j == state.infringements[k].offendingSlotIndex
                   IN /\ IsDrive(dailySchedule, j)
                      /\ DrivenAfter(dailySchedule, j) > maxDrivingDurationSec
                      /\ DrivenBefore(dailySchedule, j) <= maxDrivingDurationSec)
    /\ [][SlotStep(TimeSlotType) =>
             /\ ResetAt(dailySchedule, i) =>
                   state'.drivingTime = 0 /\ ~state'.infringementReported
             /\ ~ResetAt(dailySchedule, i) =>
                   /\ state'.drivingTime >= state.drivingTime
                   /\ state.infringementReported => state'.infringementReported]_vars

\* The streak went over the maximum at its second drive slot, where the
\* infringement is pinned; a third drive slot was scanned with the flag
\* still set.
C22_Witness ==
    /\ pc = "scan"
    /\ i = 3
    /\ IsDrive(Day, 0) /\ IsDrive(Day, 1) /\ IsDrive(Day, 2)
    /\ DrivenAfter(Day, 0) <= maxDrivingDurationSec
    /\ state.infringementReported
    /\ Len(state.infringements) = 1
    /\ state.infringements[1].offendingSlotIndex = 1
    /\ state.drivingTime > maxDrivingDurationSec

====
